---------------------------- MODULE Spec2Model ----------------------------
(***************************************************************************)
(* A model of the generation orchestration layer of Evolvoai:              *)
(*   src/lib/gemini.ts        generateWithClient, generateBlogPost,        *)
(*                            generateMultiplePosts                        *)
(*   src/lib/gemini-trend.ts  generateTrendingPost, generateAudioSummary   *)
(*   src/app/api/cron/generate/route.ts  GET                               *)
(* JavaScript runs one continuation at a time: an action of this model is  *)
(* one run-to-suspension step, from the settling of an awaited promise to  *)
(* the next await (or to the return/throw of the async function).          *)
(***************************************************************************)
EXTENDS Integers, Sequences, FiniteSets, TLC

VARIABLES
    clients,        \* gemini.ts:15   one client per configured API key
    models,         \* gemini.ts:105  the model list generateBlogPost iterates
    call,           \* activations of generateBlogPost, by call id
    bpc,            \* generateMultiplePosts: where the async function stands
    categoriesArg,  \* generateMultiplePosts: parameter categories
    maxConcurrent,  \* generateMultiplePosts: parameter maxConcurrent
    idx,            \* generateMultiplePosts: loop variable i
    batch,          \* generateMultiplePosts: const batch (the current slice)
    batchPromises,  \* generateMultiplePosts: const batchPromises
    results,        \* generateMultiplePosts: const results
    started,        \* positions of categories whose generateBlogPost was called
    finished,       \* positions of categories whose generateBlogPost settled
    pauses,         \* number of inter-batch delays begun so far
    seen,           \* messages of the failed attempts of the call of Spec
    trend,          \* the activation of generateTrendingPost
    processEnv,     \* process.env: the values of the three key slots
    moduleState,    \* gemini.ts as a module: not yet loaded, loaded, failed
    audio,          \* the activation of generateAudioSummary and its directory
    rt,             \* a reply text under parsing and the record it was built from
    cron            \* the activation of the cron handler GET

vars == <<clients, models, call, bpc, categoriesArg, maxConcurrent, idx, batch,
          batchPromises, results, started, finished, pauses, seen, trend,
          processEnv, moduleState, audio, rt, cron>>

poolVars == <<clients, models, processEnv, moduleState>>
batchVars == <<bpc, categoriesArg, maxConcurrent, idx, batch, batchPromises,
               results, started, finished, pauses>>

(***************************************************************************)
(* Bounds of the model.                                                    *)
(***************************************************************************)
MaxReplyLen == 4
MaxCategories == 3
MaxConcurrent == 2
MaxBatchModels == 1
MaxPauses == 3
MaxProse == 2

Min(S) == CHOOSE x \in S : \A y \in S : x <= y
Max(S) == CHOOSE x \in S : \A y \in S : x >= y

(***************************************************************************)
(* JSON values of the two required fields.  A field of the parsed object   *)
(* is undefined (the key is missing), null, or a string.                   *)
(***************************************************************************)
Undefined == [kind |-> "undefined", text |-> ""]
JsonNull == [kind |-> "null", text |-> ""]
Str(s) == [kind |-> "string", text |-> s]

\* JavaScript's !v for the values above: undefined, null and "" are falsy.
Falsy(v) == v.kind \in {"undefined", "null"} \/ (v.kind = "string" /\ v.text = "")

(***************************************************************************)
(* The reply text of the provider, as a sequence of lexical pieces: an     *)
(* opening brace, a closing brace, a piece of prose, or one whole member   *)
(* ("key": value, with its separator) of a JSON object.                    *)
(***************************************************************************)
TitleMembers == {"title:null", "title:''", "title:a", "title:b"}
ContentMembers == {"content:null", "content:''", "content:x"}
MemberPieces == TitleMembers \cup ContentMembers
ReplyAlphabet == {"{", "}", "prose"} \cup MemberPieces

MemberKey(piece) == IF piece \in TitleMembers THEN "title" ELSE "content"

MemberValue(piece) ==
    CASE piece = "title:null" -> JsonNull
      [] piece = "title:''" -> Str("")
      [] piece = "title:a" -> Str("a")
      [] piece = "title:b" -> Str("b")
      [] piece = "content:null" -> JsonNull
      [] piece = "content:''" -> Str("")
      [] piece = "content:x" -> Str("x")

Replies == UNION {[1..n -> ReplyAlphabet] : n \in 0..MaxReplyLen}

\* jsonMatch matching lazily, from the first "{" to the first "}" after it.
jsonMatch_Lazy(text) ==
    LET opens == {j \in 1..Len(text) : text[j] = "{"}
        after == {j \in 1..Len(text) : text[j] = "}" /\ opens # {} /\ j > Min(opens)}
    IN  IF after = {} THEN <<>> ELSE SubSeq(text, Min(opens), Min(after))

\* text.match(/\{[\s\S]*\}/): greedy, from the first "{" to the last "}";
\* <<>> stands for null (no match).
jsonMatch(text) ==
    LET opens == {j \in 1..Len(text) : text[j] = "{"}
        closes == {j \in 1..Len(text) : text[j] = "}"}
    IN  IF opens = {} \/ closes = {} THEN <<>>
        ELSE IF Max(closes) < Min(opens) THEN <<>>
        ELSE SubSeq(text, Min(opens), Max(closes))

\* Whether JSON.parse accepts s: one object whose members are whole members.
JSONparses(s) ==
    /\ Len(s) >= 2
    /\ s[1] = "{"
    /\ s[Len(s)] = "}"
    /\ \A j \in 2..(Len(s) - 1) : s[j] \in MemberPieces

\* obj[key] of the object JSON.parse(s) returns: a repeated key keeps its
\* last value, a missing key reads as undefined.
FieldOf(s, key) ==
    LET at == {j \in 2..(Len(s) - 1) : MemberKey(s[j]) = key}
    IN  IF at = {} THEN Undefined ELSE MemberValue(s[Max(at)])

JSONparse(s) == [title |-> FieldOf(s, "title"), content |-> FieldOf(s, "content")]

EmptyObject == [title |-> Undefined, content |-> Undefined]

(***************************************************************************)
(* Errors.  lastError is an Error or null.                                 *)
(***************************************************************************)
Error(msg) == [isError |-> TRUE, message |-> msg]
NullError == [isError |-> FALSE, message |-> ""]

ProviderErrors == {"429 quota exceeded"}

NoJsonMessage == "Failed to parse JSON from Gemini response"
SyntaxErrorMessage == "SyntaxError: Unexpected token in JSON"
MissingFieldsMessage == "Generated content is missing required fields"
ExhaustedMessage == "All API keys and models exhausted"

Success(content) == [ok |-> TRUE, content |-> content, error |-> NullError]
Failure(err) == [ok |-> FALSE, content |-> EmptyObject, error |-> err]
NoOutcome == [ok |-> FALSE, content |-> EmptyObject, error |-> NullError]

\* the required-field check looking at the title only
MissingRequired_TitleOnly(parsedContent) == Falsy(parsedContent.title)

\* gemini.ts:94  the required-field check of generateWithClient
MissingRequired(parsedContent) ==
    Falsy(parsedContent.title) \/ Falsy(parsedContent.content)

\* gemini.ts:83-98  what generateWithClient does with the reply text
ParseReply(text) ==
    LET m == jsonMatch(text)
    IN  IF m = <<>> THEN Failure(Error(NoJsonMessage))
        ELSE IF ~JSONparses(m) THEN Failure(Error(SyntaxErrorMessage))
        ELSE IF MissingRequired(JSONparse(m)) THEN Failure(Error(MissingFieldsMessage))
        ELSE Success(JSONparse(m))

\* The outcomes of generateWithClient over every reply text of the bound.
ReplyOutcomes == {ParseReply(text) : text \in Replies}

(***************************************************************************)
(* The credential pool: gemini.ts:4-15.                                    *)
(***************************************************************************)
KeySlots == <<"GEMINI_API_KEY", "GEMINI_API_KEY2", "GEMINI_API_KEY3">>

\* An environment gives each slot a string, or leaves it unset ("" here: an
\* unset variable and an empty one are both dropped by filter(Boolean)).
Environments == [1..Len(KeySlots) -> {"", "key"}]

RECURSIVE FilterSet(_, _)
FilterSet(env, n) ==
    IF n = 0 THEN <<>>
    ELSE IF env[n] # "" THEN Append(FilterSet(env, n - 1), KeySlots[n])
    ELSE FilterSet(env, n - 1)

\* API_KEYS keeping the unset slots.
API_KEYS_Unfiltered(env) == KeySlots

\* the keys of the set slots, in slot order
API_KEYS(env) == FilterSet(env, Len(KeySlots))

\* clients: one client per key, in the order of API_KEYS
createClients(keys) == [j \in 1..Len(keys) |-> [apiKey |-> keys[j]]]

ClientLists == {createClients(API_KEYS(env)) : env \in Environments} \ {<<>>}

categories == <<"biznes", "texnologiya", "marketing", "AI", "dasturlash",
                "startaplar", "dizayn", "sotsiomedia", "e-commerce",
                "avtomatlashtirish", "chatbotlar", "SEO">>

ModelPreference == <<"gemini-2.5-flash", "gemini-2.0-flash-exp", "gemini-2.0-flash",
                     "gemini-1.5-flash", "gemini-1.5-flash-002", "gemini-1.5-pro",
                     "gemini-1.5-pro-002", "gemini-pro">>

Prefix(s, n) == SubSeq(s, 1, IF n < Len(s) THEN n ELSE Len(s))

(***************************************************************************)
(* generateBlogPost: gemini.ts:101-139.  A call record holds the locals of *)
(* one activation: m and i are the positions of the two loops (m from 1    *)
(* into models, i from 0 as in the code).  attempts, tried, inflight and   *)
(* request record the requests the call has issued; outcome records what  *)
(* the provider answered: the outcome of the attempt settled last.         *)
(***************************************************************************)
NewCall(category) ==
    [category |-> category, pc |-> "loop", m |-> 1, i |-> 0,
     lastError |-> NullError, result |-> EmptyObject, thrown |-> NullError,
     attempts |-> 0, tried |-> {}, inflight |-> 0,
     request |-> [model |-> "", apiKey |-> "", keyIndex |-> -1],
     outcome |-> NoOutcome]

\* BeginAttempt asking every remaining client of the model at once.
BeginAttempt_Parallel(c) ==
    [c EXCEPT !.pc = "awaiting",
              !.attempts = @ + (Len(clients) - c.i),
              !.inflight = @ + (Len(clients) - c.i),
              !.tried = @ \cup {<<c.m, k>> : k \in c.i..(Len(clients) - 1)},
              !.request = [model |-> models[c.m], apiKey |-> clients[c.i + 1].apiKey,
                           keyIndex |-> c.i]]

\* BeginAttempt with the loops nested the other way round (clients outside,
\* models inside).
BeginAttempt_ClientMajor(c) ==
    [c EXCEPT !.pc = "awaiting",
              !.attempts = @ + 1,
              !.inflight = @ + 1,
              !.tried = @ \cup {<<c.m, c.i>>},
              !.request = [model |-> models[(c.attempts % Len(models)) + 1],
                           apiKey |-> clients[(c.attempts \div Len(models)) + 1].apiKey,
                           keyIndex |-> c.attempts \div Len(models)]]

\* gemini.ts:122, 77-81  generateWithClient up to its first await: the request
\* to models[m] with clients[i] is issued.
BeginAttempt(c) ==
    [c EXCEPT !.pc = "awaiting",
              !.attempts = @ + 1,
              !.inflight = @ + 1,
              !.tried = @ \cup {<<c.m, c.i>>},
              !.request = [model |-> models[c.m], apiKey |-> clients[c.i + 1].apiKey,
                           keyIndex |-> c.i]]

\* gemini.ts:136-138  after both loops: throw lastError || new Error(...)
Exhausted(c) ==
    [c EXCEPT !.pc = "thrown",
              !.thrown = IF c.lastError.isError THEN c.lastError
                         ELSE Error(ExhaustedMessage)]

\* gemini.ts:117-118  the two loop heads, from position (m, i)
RECURSIVE LoopFrom(_)
LoopFrom(c) ==
    IF c.m > Len(models) THEN Exhausted(c)
    ELSE IF c.i < Len(clients) THEN BeginAttempt(c)
    ELSE LoopFrom([c EXCEPT !.m = @ + 1, !.i = 0])

\* OnFailure keeping the first error instead of the last.
OnFailure_KeepFirst(c, err) ==
    LoopFrom([c EXCEPT !.lastError = IF @.isError THEN @ ELSE err, !.i = @ + 1])

\* OnFailure rethrowing a validation error instead of trying the next pair.
OnFailure_RethrowValidation(c, err) ==
    IF err.message = MissingFieldsMessage
    THEN Exhausted([c EXCEPT !.lastError = err])
    ELSE LoopFrom([c EXCEPT !.lastError = err, !.i = @ + 1])

\* gemini.ts:123-132  the catch block: record the error, continue with i++
OnFailure(c, err) ==
    LoopFrom([c EXCEPT !.lastError = err, !.i = @ + 1])

\* OnSuccess keeping the content but going on with the loop.
OnSuccess_NoReturn(c, content) ==
    LoopFrom([c EXCEPT !.result = content, !.i = @ + 1])

\* gemini.ts:122  return await generateWithClient(...)
OnSuccess(c, content) ==
    [c EXCEPT !.pc = "returned", !.result = content]

\* the awaited request of call c has settled with outcome o: it is no longer
\* in flight
Answered(c, o) ==
    [c EXCEPT !.inflight = @ - 1, !.outcome = o]

\* gemini.ts:119-123  the continuation of a call when its awaited attempt
\* settles with outcome o: return on success, the catch block on failure
OnSettle(c, o) ==
    IF o.ok THEN OnSuccess(Answered(c, o), o.content)
    ELSE OnFailure(Answered(c, o), o.error)

generateBlogPost(category) == LoopFrom(NewCall(category))

NoCalls == [t \in {} |-> NewCall("")]

(***************************************************************************)
(* The initial states.  The module initialisation of gemini.ts has run:    *)
(* clients is non-empty (gemini.ts:10-12 throws otherwise).  models is a   *)
(* non-empty prefix of the preference list, the whole list included.       *)
(***************************************************************************)
InitPool(maxModels) ==
    /\ processEnv \in Environments
    /\ API_KEYS(processEnv) # <<>>
    /\ clients = createClients(API_KEYS(processEnv))
    /\ moduleState = "loaded"
    /\ \E n \in 1..maxModels : models = Prefix(ModelPreference, n)

BatchIdle ==
    /\ bpc = "idle"
    /\ categoriesArg = <<>>
    /\ maxConcurrent = 0
    /\ idx = 0
    /\ batch = <<>>
    /\ batchPromises = <<>>
    /\ results = <<>>
    /\ started = {}
    /\ finished = {}
    /\ pauses = 0
    /\ seen = {}

TrendIdle == trend = [pc |-> "idle", category |-> "", calls |-> 0,
                      request |-> [model |-> "", apiKey |-> ""],
                      outcome |-> NoOutcome,
                      result |-> EmptyObject, thrown |-> NullError]

\* no response of the TTS model yet
NoResponse == [missing |-> TRUE, candidates |-> <<>>]

\* no file at the path given to the external script
NoFile == [exists |-> FALSE, size |-> 0]

\* generateAudioSummary not called; the audio directory does not exist yet.
\* answered, response, primaryError, exec, file and the two counters record
\* what the call met and did.
AudioRecord ==
    [pc |-> "idle", dirExists |-> FALSE, primaryCalls |-> 0, execCalls |-> 0,
     answered |-> "", response |-> NoResponse, primaryError |-> NullError,
     exec |-> "", file |-> NoFile, result |-> Undefined, thrown |-> NullError]

AudioIdle == audio = AudioRecord

\* no reply text under parsing
ParseRecord == [pc |-> "idle", text |-> <<>>, built |-> FALSE, pre |-> <<>>,
                post |-> <<>>, record |-> EmptyObject, outcome |-> NoOutcome]

ParseIdle == rt = ParseRecord

\* no request at the cron handler
\* steps lists the steps the handler has begun, failed those that raised
CronRecord == [pc |-> "idle", authorized |-> FALSE, type |-> "", category |-> "",
               steps |-> <<>>, failed |-> {}, downloadUrl |-> FALSE,
               persisted |-> FALSE, status |-> 0]

CronIdle == cron = CronRecord

(***************************************************************************)
(* Spec: one call of generateBlogPost by an outside caller.                *)
(***************************************************************************)
Init ==
    /\ InitPool(Len(ModelPreference))
    /\ call = NoCalls
    /\ BatchIdle
    /\ TrendIdle
    /\ AudioIdle
    /\ ParseIdle
    /\ CronIdle

\* a caller invokes generateBlogPost(category)
Invoke(category) ==
    /\ call = NoCalls
    /\ call' = (1 :> generateBlogPost(category))
    /\ UNCHANGED <<poolVars, batchVars, seen, trend, audio, rt, cron>>

\* the awaited request of call t fails at the provider (gemini.ts:81-82)
ProviderFails(t, e) ==
    /\ call[t].pc = "awaiting"
    /\ call' = [call EXCEPT ![t] = OnSettle(@, Failure(Error(e)))]
    /\ seen' = seen \cup {e}
    /\ UNCHANGED <<poolVars, batchVars, trend, audio, rt, cron>>

\* the awaited request of call t is answered with a reply text, which
\* generateWithClient parses and validates to outcome o (gemini.ts:83-98)
ProviderReplies(t, o) ==
    /\ call[t].pc = "awaiting"
    /\ call' = [call EXCEPT ![t] = OnSettle(@, o)]
    /\ seen' = IF o.ok THEN seen ELSE seen \cup {o.error.message}
    /\ UNCHANGED <<poolVars, batchVars, trend, audio, rt, cron>>

Next ==
    \/ \E j \in 1..MaxCategories : Invoke(categories[j])
    \/ \E t \in DOMAIN call, e \in ProviderErrors : ProviderFails(t, e)
    \/ \E t \in DOMAIN call, o \in ReplyOutcomes : ProviderReplies(t, o)

Spec == Init /\ [][Next]_vars

(***************************************************************************)
(* SpecPool: gemini.ts is loaded (gemini.ts:4-15), then generateBlogPost   *)
(* is called any number of times, one call after the other.                *)
(***************************************************************************)
\* gemini.ts:4-15  the module initialisation: the keys of the set slots, the
\* fatal error when there is none, one client per key
LoadModule ==
    /\ moduleState = "unloaded"
    /\ IF Len(API_KEYS(processEnv)) = 0
       THEN moduleState' = "failed" /\ clients' = clients
       ELSE moduleState' = "loaded" /\ clients' = createClients(API_KEYS(processEnv))
    /\ UNCHANGED <<models, processEnv, call, batchVars, seen, trend, audio, rt, cron>>

\* a caller that imported the module invokes generateBlogPost(category)
PoolInvoke(category) ==
    /\ moduleState = "loaded"
    /\ Invoke(category)

\* the caller has the result or the error of the call: the activation is gone
CallEnds ==
    /\ call # NoCalls
    /\ call[1].pc \in {"returned", "thrown"}
    /\ call' = NoCalls
    /\ seen' = {}
    /\ UNCHANGED <<poolVars, batchVars, trend, audio, rt, cron>>

InitUnloaded ==
    /\ processEnv \in Environments
    /\ moduleState = "unloaded"
    /\ clients = <<>>
    /\ \E n \in 1..MaxBatchModels : models = Prefix(ModelPreference, n)
    /\ call = NoCalls
    /\ BatchIdle
    /\ TrendIdle
    /\ AudioIdle
    /\ ParseIdle
    /\ CronIdle

NextPool ==
    \/ LoadModule
    \/ \E j \in 1..MaxCategories : PoolInvoke(categories[j])
    \/ \E t \in DOMAIN call, e \in ProviderErrors : ProviderFails(t, e)
    \/ \E t \in DOMAIN call, o \in ReplyOutcomes : ProviderReplies(t, o)
    \/ CallEnds

SpecPool == InitUnloaded /\ [][NextPool]_vars

(***************************************************************************)
(* SpecParse: the parsing of generateWithClient (gemini.ts:85-98) applied  *)
(* to a reply text: any text of Replies, or the JSON object of a record    *)
(* with prose (braces included) before and after it.                       *)
(***************************************************************************)
\* the records with a non-empty title and a non-empty content
ValidRecords ==
    {JSONparse(<<"{", t, c, "}">>) : t \in {"title:a", "title:b"}, c \in {"content:x"}}

\* the JSON text of a record of ValidRecords
JSONstringify(rec) ==
    <<"{", CHOOSE t \in TitleMembers : MemberValue(t) = rec.title,
           CHOOSE c \in ContentMembers : MemberValue(c) = rec.content, "}">>

\* what a reply can hold around the object: prose and stray braces
ProseTexts == UNION {[1..n -> {"prose", "{", "}"}] : n \in 0..MaxProse}

\* gemini.ts:83-98  generateWithClient goes through the reply text
ParseText ==
    /\ rt.pc = "input"
    /\ rt' = [rt EXCEPT !.pc = "parsed", !.outcome = ParseReply(rt.text)]
    /\ UNCHANGED <<poolVars, call, batchVars, seen, trend, audio, cron>>

InitParse ==
    /\ processEnv = [k \in 1..Len(KeySlots) |-> "key"]
    /\ moduleState = "loaded"
    /\ clients = createClients(API_KEYS(processEnv))
    /\ models = ModelPreference
    /\ call = NoCalls
    /\ BatchIdle
    /\ TrendIdle
    /\ AudioIdle
    /\ CronIdle
    /\ \/ \E text \in Replies : rt = [ParseRecord EXCEPT !.pc = "input", !.text = text]
       \/ \E rec \in ValidRecords, pre \in ProseTexts, post \in ProseTexts :
             rt = [ParseRecord EXCEPT !.pc = "input", !.built = TRUE,
                                      !.record = rec, !.pre = pre, !.post = post,
                                      !.text = pre \o JSONstringify(rec) \o post]

NextParse == ParseText

SpecParse == InitParse /\ [][NextParse]_vars

(***************************************************************************)
(* SpecCron: one request to the cron handler, route.ts:21-124.  The image  *)
(* service, the database and the two notification channels are outside     *)
(* the program: each of their calls succeeds or raises.                    *)
(***************************************************************************)
\* route.ts:37
trendCategories == <<"biznes", "texnologiya", "AI", "startaplar">>

\* route.ts:28  the type parameter, "hourly" when absent
RequestTypes == {"hourly", "trend"}

\* route.ts:36-41  the categories the random choice can give
Selectable(type) ==
    IF type = "trend" THEN {trendCategories[j] : j \in 1..Len(trendCategories)}
    ELSE {categories[j] : j \in 1..Len(categories)}

\* route.ts:9-19  verifyCronSecret
verifyCronSecret(secretSet, header) == ~secretSet \/ header = "good"

\* the handler begins step s
Begin(c, s) == [c EXCEPT !.pc = s, !.steps = Append(@, s)]

\* route.ts:114-123  the outer catch: step s raised, the response is a 500
Respond500(c, s) == [c EXCEPT !.pc = "responded", !.failed = @ \cup {s}, !.status = 500]

\* route.ts:103-113  the success response
Respond200(c) == [c EXCEPT !.pc = "responded", !.status = 200]

\* route.ts:21-44  a request arrives: 401 when unauthorized, else a category
\* is drawn and generateBlogPost is called
CronRequest(secretSet, header, type, category) ==
    /\ cron.pc = "idle"
    /\ category \in Selectable(type)
    /\ IF ~verifyCronSecret(secretSet, header)
       THEN /\ cron' = [cron EXCEPT !.pc = "responded", !.status = 401]
            /\ call' = call
       ELSE /\ cron' = Begin([cron EXCEPT !.authorized = TRUE, !.type = type,
                                          !.category = category], "generate")
            /\ call' = (1 :> generateBlogPost(category))
    /\ UNCHANGED <<poolVars, batchVars, seen, trend, audio, rt>>

\* route.ts:44-53  generateBlogPost has settled: its error goes to the outer
\* catch; with its content the slug and the read time are computed
\* (utilsOk: without raising) and the image is asked for
Generated(utilsOk) ==
    /\ cron.pc = "generate"
    /\ call[1].pc \in {"returned", "thrown"}
    /\ cron' = IF call[1].pc = "thrown" \/ ~utilsOk THEN Respond500(cron, "generate")
               ELSE Begin(cron, "fetchImage")
    /\ UNCHANGED <<poolVars, call, batchVars, seen, trend, audio, rt>>

\* route.ts:53-71  fetchCategoryImage has settled
ImageSettles(ok, hasDownloadUrl) ==
    /\ cron.pc = "fetchImage"
    /\ cron' = IF ~ok THEN Respond500(cron, "fetchImage")
               ELSE Begin([cron EXCEPT !.downloadUrl = hasDownloadUrl], "persist")
    /\ UNCHANGED <<poolVars, call, batchVars, seen, trend, audio, rt>>

\* route.ts:57-88  prisma.blogPost.create has settled
PersistSettles(ok) ==
    /\ cron.pc = "persist"
    /\ cron' = IF ~ok THEN Respond500(cron, "persist")
               ELSE Begin([cron EXCEPT !.persisted = TRUE],
                          IF cron.downloadUrl THEN "trackDownload" ELSE "channel")
    /\ UNCHANGED <<poolVars, call, batchVars, seen, trend, audio, rt>>

\* route.ts:74-88  trackImageDownload has settled
TrackSettles(ok) ==
    /\ cron.pc = "trackDownload"
    /\ cron' = IF ~ok THEN Respond500(cron, "trackDownload") ELSE Begin(cron, "channel")
    /\ UNCHANGED <<poolVars, call, batchVars, seen, trend, audio, rt>>

\* OnChannelSettled with the error of sendToChannel left to the outer catch.
OnChannelSettled_Abort(c, ok) ==
    IF ~ok THEN Respond500(c, "channel") ELSE Begin(c, "subscribers")

\* route.ts:87-96  sendToChannel has settled: its error is logged, and
\* notifySubscribers is called
OnChannelSettled(c, ok) ==
    Begin([c EXCEPT !.failed = IF ok THEN @ ELSE @ \cup {"channel"}], "subscribers")

ChannelSettles(ok) ==
    /\ cron.pc = "channel"
    /\ cron' = OnChannelSettled(cron, ok)
    /\ UNCHANGED <<poolVars, call, batchVars, seen, trend, audio, rt>>

\* route.ts:95-113  notifySubscribers has settled: its error is logged, and
\* the success response is returned
SubscribersSettle(ok) ==
    /\ cron.pc = "subscribers"
    /\ cron' = Respond200([cron EXCEPT !.failed = IF ok THEN @ ELSE @ \cup {"subscribers"}])
    /\ UNCHANGED <<poolVars, call, batchVars, seen, trend, audio, rt>>

InitCron ==
    /\ InitPool(MaxBatchModels)
    /\ call = NoCalls
    /\ BatchIdle
    /\ TrendIdle
    /\ AudioIdle
    /\ ParseIdle
    /\ CronIdle

NextCron ==
    \/ \E secretSet \in BOOLEAN, header \in {"none", "good", "bad"},
          type \in RequestTypes, category \in Selectable("hourly") :
             CronRequest(secretSet, header, type, category)
    \/ \E t \in DOMAIN call, e \in ProviderErrors : ProviderFails(t, e)
    \/ \E t \in DOMAIN call, o \in ReplyOutcomes : ProviderReplies(t, o)
    \/ \E utilsOk \in BOOLEAN : Generated(utilsOk)
    \/ \E ok \in BOOLEAN, hasDownloadUrl \in BOOLEAN : ImageSettles(ok, hasDownloadUrl)
    \/ \E ok \in BOOLEAN : PersistSettles(ok)
    \/ \E ok \in BOOLEAN : TrackSettles(ok)
    \/ \E ok \in BOOLEAN : ChannelSettles(ok)
    \/ \E ok \in BOOLEAN : SubscribersSettle(ok)

SpecCron == InitCron /\ [][NextCron]_vars

(***************************************************************************)
(* generateMultiplePosts: gemini.ts:141-173.                               *)
(***************************************************************************)
\* Array.prototype.slice: a negative index counts from the end, and both
\* indices are clamped to 0..len.
SliceIndex(k, len) ==
    IF k < 0 THEN (IF len + k < 0 THEN 0 ELSE len + k)
    ELSE (IF k > len THEN len ELSE k)

slice(arr, start, end) ==
    LET from == SliceIndex(start, Len(arr))
        to == SliceIndex(end, Len(arr))
    IN  IF from >= to THEN <<>> ELSE SubSeq(arr, from + 1, to)

\* An entry of the result array; content <<>> is null, error <<>> is no
\* error field.
NoEntry == [category |-> "", content |-> <<>>, error |-> <<>>]

\* A promise of batchPromises.  seq numbers the promises of a batch in the
\* order they settled.
Pending == [state |-> "pending", value |-> NoEntry, seq |-> 0]
Fulfilled(entry, k) == [state |-> "fulfilled", value |-> entry, seq |-> k]
Rejected(k) == [state |-> "rejected", value |-> NoEntry, seq |-> k]

Ended(c) == c.pc \in {"returned", "thrown"}

\* what is left of an activation of generateBlogPost that has ended: its
\* settled promise, with the value returned or the error thrown
Settled(c) ==
    [NewCall(c.category) EXCEPT !.pc = c.pc, !.result = c.result, !.thrown = c.thrown]

\* the closure without its catch block: a failed generation rejects the promise
closure_NoCatch(category, c, k) ==
    IF c.pc = "returned"
    THEN Fulfilled([category |-> category, content |-> <<c.result>>, error |-> <<>>], k)
    ELSE Rejected(k)

\* gemini.ts:150-161  the async closure of batch.map, once its generateBlogPost
\* call c has ended: the promise it settles, as the k-th of the batch
closure(category, c, k) ==
    IF c.pc = "returned"
    THEN Fulfilled([category |-> category, content |-> <<c.result>>, error |-> <<>>], k)
    ELSE Fulfilled([category |-> category, content |-> <<>>,
                    error |-> <<IF c.thrown.isError THEN c.thrown.message
                                ELSE "Unknown error">>], k)

\* Promise.race in the place of Promise.all: settled with the first promise
PromiseAll_Race(ps) ==
    IF \E j \in DOMAIN ps : ps[j].state = "rejected" THEN "rejected"
    ELSE IF ps = <<>> \/ \E j \in DOMAIN ps : ps[j].state = "fulfilled" THEN "fulfilled"
    ELSE "pending"

\* gemini.ts:163  Promise.all(batchPromises): rejected as soon as one promise
\* is, fulfilled once every promise is
PromiseAll(ps) ==
    IF \E j \in DOMAIN ps : ps[j].state = "rejected" THEN "rejected"
    ELSE IF \A j \in DOMAIN ps : ps[j].state = "fulfilled" THEN "fulfilled"
    ELSE "pending"

\* the values of the promises in the order they settled
batchResults_SettleOrder(ps) ==
    [k \in 1..Len(ps) |->
        IF \E j \in DOMAIN ps : ps[j].seq = k
        THEN ps[CHOOSE j \in DOMAIN ps : ps[j].seq = k].value
        ELSE NoEntry]

\* gemini.ts:163  the value of Promise.all: the promises' values, in the order
\* of the promises
batchResults(ps) == [j \in 1..Len(ps) |-> ps[j].value]

\* the test of gemini.ts:167 with <= for <
MoreBatches_OffByOne(i) == i + maxConcurrent <= Len(categoriesArg)

\* gemini.ts:167  whether another batch follows the one at index i
MoreBatches(i) == i + maxConcurrent < Len(categoriesArg)

\* gemini.ts:163-172  from the settling of Promise.all(ps) for the batch at
\* index i: push the entries, then pause before the next batch, or leave the
\* loop (i += maxConcurrent fails the loop test) and return results.  pauses
\* counts up to MaxPauses + 1, which stands for every larger count.
AfterAwaitAll(i, ps) ==
    IF PromiseAll(ps) = "rejected"
    THEN /\ bpc' = "thrown"
         /\ UNCHANGED <<results, pauses>>
    ELSE /\ results' = results \o batchResults(ps)
         /\ IF MoreBatches(i)
            THEN /\ bpc' = "sleeping"
                 /\ pauses' = IF pauses <= MaxPauses THEN pauses + 1 ELSE pauses
            ELSE bpc' = "returned" /\ pauses' = pauses

\* gemini.ts:148-163  the loop test at index i and the body up to its await:
\* every call of the batch is made, each running to its first await; the
\* function then awaits Promise.all, of an empty batch too
LoopIteration(i) ==
    IF i < Len(categoriesArg)
    THEN LET b == slice(categoriesArg, i, i + maxConcurrent)
             base == SliceIndex(i, Len(categoriesArg))
             ps == [j \in 1..Len(b) |-> Pending]
         IN  /\ idx' = i
             /\ batch' = b
             /\ call' = [j \in 1..Len(b) |-> generateBlogPost(b[j])]
             /\ batchPromises' = ps
             /\ started' = started \cup {base + j : j \in 1..Len(b)}
             /\ finished' = finished
             /\ bpc' = "awaitAll"
             /\ UNCHANGED <<results, pauses>>
    ELSE /\ bpc' = "returned"
         /\ idx' = i
         /\ UNCHANGED <<batch, call, batchPromises, results, started, finished, pauses>>

\* a caller invokes generateMultiplePosts(categoriesArg, maxConcurrent)
InvokeBatch ==
    /\ bpc = "idle"
    /\ LoopIteration(0)
    /\ UNCHANGED <<poolVars, categoriesArg, maxConcurrent, seen, trend, audio, rt, cron>>

\* the awaited request of call j of the batch settles with outcome o; when
\* the call ends its closure settles its promise, and when that settles
\* Promise.all the function goes on from its await
BatchSettles(j, o) ==
    /\ bpc = "awaitAll"
    /\ call[j].pc = "awaiting"
    /\ LET c == OnSettle(call[j], o)
           k == Cardinality({x \in DOMAIN batchPromises :
                                batchPromises[x].state # "pending"}) + 1
           ps == IF Ended(c)
                 THEN [batchPromises EXCEPT ![j] = closure(batch[j], c, k)]
                 ELSE batchPromises
           base == SliceIndex(idx, Len(categoriesArg))
       IN  /\ call' = [call EXCEPT ![j] = IF Ended(c) THEN Settled(c) ELSE c]
           /\ batchPromises' = ps
           /\ finished' = IF Ended(c) THEN finished \cup {base + j} ELSE finished
           /\ IF PromiseAll(ps) = "pending"
              THEN UNCHANGED <<bpc, results, pauses>>
              ELSE AfterAwaitAll(idx, ps)
    /\ UNCHANGED <<poolVars, categoriesArg, maxConcurrent, idx, batch, started, seen,
                   trend, audio, rt, cron>>

\* gemini.ts:163  Promise.all of an empty batch is fulfilled at once: the
\* function goes on from its await in the next microtask
EmptyBatchSettles ==
    /\ bpc = "awaitAll"
    /\ batchPromises = <<>>
    /\ AfterAwaitAll(idx, batchPromises)
    /\ UNCHANGED <<poolVars, categoriesArg, maxConcurrent, idx, batch, call,
                   batchPromises, started, finished, seen, trend, audio, rt, cron>>

BatchProviderFails(j, e) == BatchSettles(j, Failure(Error(e)))

BatchProviderReplies(j, o) == BatchSettles(j, o)

\* gemini.ts:168  the delay between two batches ends: i += maxConcurrent and
\* the next iteration (i is followed down to -MaxPauses)
TimerFires ==
    /\ bpc = "sleeping"
    /\ idx >= -MaxPauses
    /\ LoopIteration(idx + maxConcurrent)
    /\ UNCHANGED <<poolVars, categoriesArg, maxConcurrent, seen, trend, audio, rt, cron>>

InitBatch ==
    /\ InitPool(MaxBatchModels)
    /\ call = NoCalls
    /\ bpc = "idle"
    /\ \E n \in 0..MaxCategories : categoriesArg = Prefix(categories, n)
    /\ maxConcurrent \in (-1)..MaxConcurrent
    /\ idx = 0
    /\ batch = <<>>
    /\ batchPromises = <<>>
    /\ results = <<>>
    /\ started = {}
    /\ finished = {}
    /\ pauses = 0
    /\ seen = {}
    /\ TrendIdle
    /\ AudioIdle
    /\ ParseIdle
    /\ CronIdle

NextBatch ==
    \/ InvokeBatch
    \/ \E j \in DOMAIN call, e \in ProviderErrors : BatchProviderFails(j, e)
    \/ \E j \in DOMAIN call, o \in ReplyOutcomes : BatchProviderReplies(j, o)
    \/ EmptyBatchSettles
    \/ TimerFires

SpecBatch == InitBatch /\ [][NextBatch]_vars

\* SpecBatchFair: the event loop runs what can run: a microtask that is
\* ready runs, a timer that is due fires, and (the assumption of the callers)
\* every provider call settles.  maxConcurrent is zero or more here.
InitBatchFair == InitBatch /\ maxConcurrent >= 0

SpecBatchFair == InitBatchFair /\ [][NextBatch]_vars /\ WF_vars(NextBatch)

(***************************************************************************)
(* generateTrendingPost: gemini-trend.ts:30-77.                            *)
(***************************************************************************)
\* gemini-trend.ts:16  the one model of generateTrendingPost
MODEL_NAME == "gemini-2.0-flash"

\* gemini-trend.ts:7-12  the key of the one client genAI
genAIKey(e) == IF e[2] # "" THEN KeySlots[2] ELSE IF e[1] # "" THEN KeySlots[1] ELSE ""

\* gemini-trend.ts is loaded on its own: any environment, no pool of gemini.ts
InitTrendModule ==
    /\ processEnv \in Environments
    /\ clients = <<>>
    /\ models = <<>>
    /\ moduleState = "unloaded"
    /\ call = NoCalls
    /\ BatchIdle
    /\ ParseIdle
    /\ CronIdle

InitTrend ==
    /\ InitTrendModule
    /\ TrendIdle
    /\ AudioIdle

\* gemini-trend.ts:61-71  what generateTrendingPost does with the reply text:
\* extract, parse, return the parsed object as it is
TrendParseReply(text) ==
    LET m == jsonMatch(text)
    IN  IF m = <<>> THEN Failure(Error(NoJsonMessage))
        ELSE IF ~JSONparses(m) THEN Failure(Error(SyntaxErrorMessage))
        ELSE Success(JSONparse(m))

TrendOutcomes == {TrendParseReply(text) : text \in Replies}

\* TrendSettle asking the provider once more after a failure.
TrendSettle_Retry(t, o) ==
    IF o.ok THEN [t EXCEPT !.pc = "returned", !.result = o.content]
    ELSE IF t.calls < 2 THEN [t EXCEPT !.calls = @ + 1]
    ELSE [t EXCEPT !.pc = "thrown", !.thrown = o.error]

\* gemini-trend.ts:57-76  the continuation of the call when its one request
\* settles: return data, or log the error and throw it again
TrendSettle(t, o) ==
    IF o.ok THEN [t EXCEPT !.pc = "returned", !.result = o.content]
    ELSE [t EXCEPT !.pc = "thrown", !.thrown = o.error]

\* a caller invokes generateTrendingPost(category): gemini-trend.ts:32-59, up
\* to the await of model.generateContent
InvokeTrending(category) ==
    /\ trend.pc = "idle"
    /\ trend' = [trend EXCEPT !.pc = "awaiting", !.category = category,
                              !.calls = @ + 1,
                              !.request = [model |-> MODEL_NAME,
                                           apiKey |-> genAIKey(processEnv)]]
    /\ UNCHANGED <<poolVars, call, batchVars, seen, audio, rt, cron>>

TrendProviderFails(e) ==
    /\ trend.pc = "awaiting"
    /\ trend' = [TrendSettle(trend, Failure(Error(e)))
                    EXCEPT !.outcome = Failure(Error(e))]
    /\ UNCHANGED <<poolVars, call, batchVars, seen, audio, rt, cron>>

TrendProviderReplies(o) ==
    /\ trend.pc = "awaiting"
    /\ trend' = [TrendSettle(trend, o) EXCEPT !.outcome = o]
    /\ UNCHANGED <<poolVars, call, batchVars, seen, audio, rt, cron>>

NextTrend ==
    \/ \E j \in 1..Len(categories) : InvokeTrending(categories[j])
    \/ \E e \in ProviderErrors : TrendProviderFails(e)
    \/ \E o \in TrendOutcomes : TrendProviderReplies(o)

SpecTrend == InitTrend /\ [][NextTrend]_vars

(***************************************************************************)
(* generateAudioSummary: gemini-trend.ts:86-173.  The primary tier asks    *)
(* the TTS model and writes the audio it returns; the fallback tier runs   *)
(* an external script and checks the file it leaves.                       *)
(***************************************************************************)
MaxCandidates == 2

\* gemini-trend.ts:161  the size a fallback file has to exceed
SizeThreshold == 100

\* the parts of a candidate's content: text, inline data of an audio MIME
\* type, inline data of another MIME type
PartLists == {<<>>, <<"text">>, <<"audio">>, <<"image">>,
              <<"text", "audio">>, <<"image", "audio">>, <<"audio", "text">>}

\* a candidate, with its content or (a blocked candidate) without
Candidates == {[hasContent |-> FALSE, parts |-> <<>>]}
                  \cup {[hasContent |-> TRUE, parts |-> ps] : ps \in PartLists}

\* the responses of the TTS model: without a candidates field, or with a
\* list of candidates, the empty one included
Responses ==
    {NoResponse} \cup {[missing |-> FALSE, candidates |-> cs] :
                          cs \in UNION {[1..n -> Candidates] : n \in 0..MaxCandidates}}

\* the files the external script can leave at filePath
FileSizes == {0, 50, 100, 101, 150}
Files == {NoFile} \cup {[exists |-> TRUE, size |-> n] : n \in FileSizes}

NoCandidatesMessage == "No candidates returned from TTS model"
NoContentMessage == "Cannot read properties of undefined (reading 'parts')"
NoAudioMessage == "No audio content in response"
MkdirMessage == "EACCES: permission denied, mkdir"
WriteMessage == "ENOSPC: no space left on device, write"
ExecMessage == "Command failed: python"
InvalidFileMessage == "Python script did not generate valid file"

PrimaryPath == Str("public/audio/gemini-tts-<uuid>.mp3")
FallbackPath == Str("public/audio/tts-py-<uuid>.mp3")

\* gemini-trend.ts:116  the predicate of parts.find
IsAudioPart(p) == p = "audio"

\* gemini-trend.ts:116-118  parts.find(...) found a part
HasAudioPart(parts) == \E k \in DOMAIN parts : IsAudioPart(parts[k])

\* the async function returns v / throws err
AudioReturns(a, v) == [a EXCEPT !.pc = "returned", !.result = v]
AudioThrows(a, err) == [a EXCEPT !.pc = "thrown", !.thrown = err]

\* InnerCatch throwing the error on.
InnerCatch_Rethrow(a, pyError) == AudioThrows(a, pyError)

\* gemini-trend.ts:168-171  catch (pyError): log it, return null
InnerCatch(a, pyError) == AudioReturns(a, JsonNull)

\* gemini-trend.ts:140-158  the inner try up to the await of the external
\* process: the audio directory is created when absent (mkdirOk tells whether
\* that works), then the script is started
FallbackTier(a, mkdirOk) ==
    IF ~a.dirExists /\ ~mkdirOk THEN InnerCatch(a, Error(MkdirMessage))
    ELSE [a EXCEPT !.pc = "fallback", !.dirExists = TRUE, !.execCalls = @ + 1]

\* OuterCatch giving up instead of falling back.
OuterCatch_GiveUp(a, error, mkdirOk) ==
    AudioReturns([a EXCEPT !.primaryError = error], JsonNull)

\* gemini-trend.ts:135-140  catch (error) of the primary tier: log it and
\* enter the fallback tier
OuterCatch(a, error, mkdirOk) ==
    FallbackTier([a EXCEPT !.primaryError = error], mkdirOk)

\* gemini-trend.ts:110-133  the primary tier from the response r on: the
\* first candidate's parts are searched for audio, which is written to a new
\* file of the audio directory (mkdirOk, writeOk: whether the file system
\* lets the directory be created and the file be written)
PrimaryTier(a, r, mkdirOk, writeOk, mkdirOk2) ==
    IF r.missing \/ r.candidates = <<>>
    THEN OuterCatch(a, Error(NoCandidatesMessage), mkdirOk2)
    ELSE IF ~r.candidates[1].hasContent
    THEN OuterCatch(a, Error(NoContentMessage), mkdirOk2)
    ELSE IF ~HasAudioPart(r.candidates[1].parts)
    THEN OuterCatch(a, Error(NoAudioMessage), mkdirOk2)
    ELSE IF ~a.dirExists /\ ~mkdirOk
    THEN OuterCatch(a, Error(MkdirMessage), mkdirOk2)
    ELSE IF ~writeOk
    THEN OuterCatch([a EXCEPT !.dirExists = TRUE], Error(WriteMessage), mkdirOk2)
    ELSE AudioReturns([a EXCEPT !.dirExists = TRUE], PrimaryPath)

\* ValidFile accepting a file of exactly the threshold size.
ValidFile_AtLeast(f) == f.exists /\ f.size >= SizeThreshold

\* gemini-trend.ts:161  fs.existsSync(filePath) && fs.statSync(filePath).size > 100
ValidFile(f) == f.exists /\ f.size > SizeThreshold

\* gemini-trend.ts:158-171  from the settling of the external process on
FallbackSettles(a, ok, f) ==
    LET b == [a EXCEPT !.exec = IF ok THEN "ok" ELSE "error", !.file = f]
    IN  IF ~ok THEN InnerCatch(b, Error(ExecMessage))
        ELSE IF ValidFile(f) THEN AudioReturns(b, FallbackPath)
        ELSE InnerCatch(b, Error(InvalidFileMessage))

\* a caller invokes generateAudioSummary(text): gemini-trend.ts:86-108, up to
\* the await of ttsModel.generateContent
InvokeAudio ==
    /\ audio.pc = "idle"
    /\ audio' = [audio EXCEPT !.pc = "primary", !.primaryCalls = @ + 1]
    /\ UNCHANGED <<poolVars, call, batchVars, seen, trend, rt, cron>>

\* the request to the TTS model fails
TtsFails(e, mkdirOk) ==
    /\ audio.pc = "primary"
    /\ audio' = OuterCatch([audio EXCEPT !.answered = "error"], Error(e), mkdirOk)
    /\ UNCHANGED <<poolVars, call, batchVars, seen, trend, rt, cron>>

\* the TTS model answers with response r
TtsResponds(r, mkdirOk, writeOk, mkdirOk2) ==
    /\ audio.pc = "primary"
    /\ audio' = PrimaryTier([audio EXCEPT !.answered = "response", !.response = r],
                            r, mkdirOk, writeOk, mkdirOk2)
    /\ UNCHANGED <<poolVars, call, batchVars, seen, trend, rt, cron>>

\* the external process fails (exits with a non-zero code, cannot be started),
\* whatever it left at filePath
ExecFails(f) ==
    /\ audio.pc = "fallback"
    /\ audio' = FallbackSettles(audio, FALSE, f)
    /\ UNCHANGED <<poolVars, call, batchVars, seen, trend, rt, cron>>

\* the external process exits without error, leaving f at filePath
ExecExits(f) ==
    /\ audio.pc = "fallback"
    /\ audio' = FallbackSettles(audio, TRUE, f)
    /\ UNCHANGED <<poolVars, call, batchVars, seen, trend, rt, cron>>

InitAudio ==
    /\ InitTrendModule
    /\ TrendIdle
    /\ \E d \in BOOLEAN : audio = [AudioRecord EXCEPT !.dirExists = d]

NextAudio ==
    \/ InvokeAudio
    \/ \E e \in ProviderErrors, k \in BOOLEAN : TtsFails(e, k)
    \/ \E r \in Responses, k, w, k2 \in BOOLEAN : TtsResponds(r, k, w, k2)
    \/ \E f \in Files : ExecFails(f)
    \/ \E f \in Files : ExecExits(f)

SpecAudio == InitAudio /\ [][NextAudio]_vars

(***************************************************************************)
(* Properties of generateBlogPost.                                         *)
(***************************************************************************)
\* the size of the model x client matrix
Matrix == Len(models) * Len(clients)

\* in this step the awaited attempt of call t settles
Settles(t) ==
    /\ t \in DOMAIN call
    /\ t \in DOMAIN call'
    /\ call[t].pc = "awaiting"
    /\ call'[t] # call[t]

\* C1 (state part): a call that has returned returned the content of the
\* attempt settled last, which succeeded; a call that has raised has made
\* every attempt of the matrix, and its last attempt failed, as did every
\* attempt before it (a success would have returned).
C1_Ended ==
    \A t \in DOMAIN call :
        /\ call[t].pc = "returned" =>
              /\ call[t].outcome.ok
              /\ call[t].result = call[t].outcome.content
        /\ call[t].pc = "thrown" =>
              /\ call[t].attempts = Matrix
              /\ ~call[t].outcome.ok

\* C1 (step part): when the k-th attempt succeeds the call returns in that
\* very step with that attempt's content and without issuing a request, and a
\* call that has returned never issues a request again.
C1_Step ==
    \A t \in DOMAIN call \cap DOMAIN call' :
        /\ (Settles(t) /\ call'[t].outcome.ok) =>
              /\ call'[t].pc = "returned"
              /\ call'[t].result = call'[t].outcome.content
              /\ call'[t].attempts = call[t].attempts
        /\ call[t].pc = "returned" => call'[t] = call[t]
        /\ call'[t].pc = "thrown" => ~call'[t].outcome.ok

\* C1: if the k-th attempt of generateBlogPost succeeds, the call returns that
\* attempt's content and no attempt after k is made; the call raises only
\* when every attempt of the model x client matrix has been made and failed.
C1_FirstSuccessReturns == [](C1_Ended) /\ [][C1_Step]_vars

\* a call returned the content of an attempt that was neither the first nor
\* the last of the matrix
C1_Witness ==
    \E t \in DOMAIN call :
        /\ call[t].pc = "returned"
        /\ call[t].attempts > 1
        /\ call[t].attempts < Matrix
        /\ call[t].result = call[t].outcome.content

\* C2 (state part): a call makes at most M*C attempts, each of a different
\* (model, client) pair, and one that raised made exactly M*C.
C2_Count ==
    \A t \in DOMAIN call :
        /\ call[t].attempts <= Matrix
        /\ Cardinality(call[t].tried) = call[t].attempts
        /\ call[t].pc = "thrown" => call[t].attempts = Matrix

\* C2 (step part): a failed attempt that is not the last of the matrix is
\* followed by the next attempt, whatever the failure was.
C2_Step ==
    \A t \in DOMAIN call \cap DOMAIN call' :
        (Settles(t) /\ ~call'[t].outcome.ok /\ call[t].attempts < Matrix) =>
            /\ call'[t].pc = "awaiting"
            /\ call'[t].attempts = call[t].attempts + 1

\* C2: for every credential count C >= 1 and model-list length M >= 1 one call
\* of generateBlogPost makes at most M*C attempts, and exactly M*C when every
\* attempt fails, whatever the kind of each failure; no failure aborts the
\* loop early and no (model, client) pair is tried twice.
C2_AttemptCount == [](C2_Count) /\ [][C2_Step]_vars

\* a call raised after M*C > 1 attempts that failed in all four kinds of
\* failure: provider error, no JSON, JSON parse failure, missing field
C2_Witness ==
    \E t \in DOMAIN call :
        /\ call[t].pc = "thrown"
        /\ call[t].attempts = Matrix
        /\ Len(models) > 1
        /\ Len(clients) > 1
        /\ {NoJsonMessage, SyntaxErrorMessage, MissingFieldsMessage} \subseteq seen
        /\ seen \cap ProviderErrors # {}

\* C3: the attempts of one call are made in model-major, client-minor order:
\* with C clients the n-th attempt (n from 0) uses model number floor(n/C) of
\* the preference list and client number n mod C.
C3_ModelMajorOrder ==
    \A t \in DOMAIN call :
        call[t].attempts >= 1 =>
            LET n == call[t].attempts - 1
                C == Len(clients)
            IN  /\ call[t].request.model = ModelPreference[(n \div C) + 1]
                /\ call[t].request.keyIndex = n % C
                /\ call[t].request.apiKey = clients[(n % C) + 1].apiKey

\* a call is at its first attempt with the second model, after every one of
\* several clients was tried with the first
C3_Witness ==
    \E t \in DOMAIN call :
        /\ Len(clients) > 1
        /\ call[t].pc = "awaiting"
        /\ call[t].attempts = Len(clients) + 1
        /\ call[t].request.model = ModelPreference[2]
        /\ call[t].request.keyIndex = 0

\* C4: when every attempt of generateBlogPost fails, the error raised is the
\* error of the last attempt made (last model, last client).
C4_LastErrorRaised ==
    \A t \in DOMAIN call :
        call[t].pc = "thrown" =>
            /\ call[t].thrown.isError
            /\ call[t].thrown = call[t].outcome.error
            /\ call[t].request.model = models[Len(models)]
            /\ call[t].request.keyIndex = Len(clients) - 1

\* a call raised the error of its last attempt after earlier attempts had
\* failed with other errors
C4_Witness ==
    \E t \in DOMAIN call :
        /\ call[t].pc = "thrown"
        /\ call[t].thrown = call[t].outcome.error
        /\ Cardinality(seen) >= 3

(***************************************************************************)
(* Properties of the validation of replies.                                *)
(***************************************************************************)
\* a field that is present and a non-empty string
NonEmpty(v) == v.kind = "string" /\ v.text # ""

ValidContent(obj) == NonEmpty(obj.title) /\ NonEmpty(obj.content)

\* every reply text from which an object is extracted and parsed whose title
\* or content is missing, null or empty makes generateWithClient fail
C5_InvalidRepliesFail ==
    \A text \in Replies :
        LET m == jsonMatch(text)
        IN  (m # <<>> /\ JSONparses(m) /\ ~ValidContent(JSONparse(m)))
                => ~ParseReply(text).ok

\* C5: every record returned as success by generateWithClient, and so by
\* generateBlogPost and by a success entry of generateMultiplePosts, has a
\* present, non-empty title and content; a reply whose title or content is
\* missing or empty makes the attempt fail and is never returned.
C5_ReturnedContentValid ==
    /\ C5_InvalidRepliesFail
    /\ \A o \in ReplyOutcomes : o.ok => ValidContent(o.content)
    /\ \A j \in DOMAIN call :
          /\ call[j].outcome.ok => ValidContent(call[j].outcome.content)
          /\ call[j].pc = "returned" => ValidContent(call[j].result)
    /\ \A j \in DOMAIN batchPromises :
          batchPromises[j].value.content # <<>> =>
              ValidContent(batchPromises[j].value.content[1])
    /\ \A p \in DOMAIN results :
          results[p].content # <<>> => ValidContent(results[p].content[1])

\* a batch returned a success entry with a valid record beside the failure
\* entry of a category whose last reply lacked a required field
C5_Witness ==
    /\ bpc = "returned"
    /\ \E p, q \in DOMAIN results :
          /\ results[p].content # <<>>
          /\ ValidContent(results[p].content[1])
          /\ results[q].error = <<MissingFieldsMessage>>

\* C6: generateTrendingPost never returns a record whose title or content is
\* missing or empty; such a reply makes the call fail.
C6_TrendingContentValid ==
    trend.pc = "returned" => ValidContent(trend.result)

(***************************************************************************)
(* Properties of generateMultiplePosts.                                    *)
(***************************************************************************)
\* the entry that captures the outcome of an ended call for a category
EntryOf(category, c) ==
    IF c.pc = "returned"
    THEN [category |-> category, content |-> <<c.result>>, error |-> <<>>]
    ELSE [category |-> category, content |-> <<>>, error |-> <<c.thrown.message>>]

\* C7 (state part): generateMultiplePosts has not raised; the promise of every
\* ended call is fulfilled with the entry of its outcome; the entries of a
\* batch that has settled are the last entries of results.
C7_Captured ==
    /\ bpc # "thrown"
    /\ \A j \in DOMAIN call :
          Ended(call[j]) =>
              /\ batchPromises[j].state = "fulfilled"
              /\ batchPromises[j].value = EntryOf(batch[j], call[j])
              /\ call[j].pc = "thrown" => call[j].thrown.isError
    /\ bpc \in {"sleeping", "returned"} =>
          /\ Len(results) >= Len(batch)
          /\ \A j \in DOMAIN batch :
                /\ Ended(call[j])
                /\ results[Len(results) - Len(batch) + j] = EntryOf(batch[j], call[j])

\* C7 (step part): entries already in results never change; the step in which
\* the call of one category fails changes neither the call nor the promise of
\* any sibling, and the function goes on.
C7_Step ==
    /\ Len(results') >= Len(results)
    /\ SubSeq(results', 1, Len(results)) = results
    /\ \A j \in DOMAIN call \cap DOMAIN call' :
          (Settles(j) /\ call'[j].pc = "thrown") =>
              /\ bpc' \in {"awaitAll", "sleeping", "returned"}
              /\ \A k \in (DOMAIN call) \ {j} :
                    /\ call'[k] = call[k]
                    /\ batchPromises'[k] = batchPromises[k]

\* C7: generateMultiplePosts never raises: the outcome of every category's
\* generateBlogPost call is captured in that category's entry (content and no
\* error field on success, null content and an error message on failure), and
\* the failure of one category neither aborts the batch nor changes the entry
\* of a sibling.
C7_NeverRaises == [](C7_Captured) /\ [][C7_Step]_vars

\* a batch of three returned with a failed first category and two
\* successful siblings, one of the same chunk and one of the next
C7_Witness ==
    /\ bpc = "returned"
    /\ maxConcurrent = 2
    /\ Len(results) = 3
    /\ results[1].content = <<>>
    /\ results[1].error # <<>>
    /\ results[2].content # <<>>
    /\ results[2].error = <<>>
    /\ results[3].content # <<>>

\* C8: for every category list of length n and every maxConcurrent >= 1 the
\* array returned by generateMultiplePosts has exactly n entries and its i-th
\* entry carries the i-th category, whatever order the generations of a chunk
\* settle in.
C8_ResultsMatchInput ==
    maxConcurrent >= 1 =>
        /\ Len(results) <= Len(categoriesArg)
        /\ \A p \in DOMAIN results : results[p].category = categoriesArg[p]
        /\ bpc = "returned" => Len(results) = Len(categoriesArg)

\* a batch returned whose last chunk had two calls, the second of which
\* settled first
C8_Witness ==
    /\ bpc = "returned"
    /\ maxConcurrent >= 1
    /\ Len(results) >= 2
    /\ Len(batchPromises) = 2
    /\ batchPromises[1].seq = 2
    /\ batchPromises[2].seq = 1

\* positions 1..k of the category list
UpTo(k) == 1..(IF k < Len(categoriesArg) THEN k ELSE Len(categoriesArg))

\* C9 (state part), for maxConcurrent >= 1: while the function awaits a
\* batch, the batch is the chunk of maxConcurrent consecutive categories at
\* idx; the calls made so far are those of the chunks up to it, and every
\* call of an earlier chunk has settled; at most maxConcurrent calls are in
\* flight; a pause or the return finds every call settled.
C9_Chunks ==
    maxConcurrent >= 1 =>
        /\ Cardinality(started \ finished) <= maxConcurrent
        /\ Cardinality({j \in DOMAIN call : call[j].pc = "awaiting"}) <= maxConcurrent
        /\ finished \subseteq started
        /\ bpc = "awaitAll" =>
              /\ idx % maxConcurrent = 0
              /\ batch = SubSeq(categoriesArg, idx + 1,
                                Max(UpTo(idx + maxConcurrent)))
              /\ started = UpTo(idx + maxConcurrent)
              /\ UpTo(idx) \subseteq finished
              /\ started \ finished =
                    {idx + j : j \in {k \in DOMAIN call : call[k].pc = "awaiting"}}
        /\ bpc \in {"sleeping", "returned"} => finished = started

\* C9 (step part), for maxConcurrent >= 1: the calls of a chunk are all made
\* in one step, and that step finds every call made before it settled.
C9_Step ==
    (maxConcurrent >= 1 /\ started' # started) =>
        /\ started = finished
        /\ started = UpTo(idx')
        /\ started' = UpTo(idx' + maxConcurrent)
        /\ \A j \in DOMAIN call' : call'[j].pc = "awaiting" /\ call'[j].inflight = 1

\* C9: generateMultiplePosts processes the categories in consecutive chunks
\* of size maxConcurrent (maxConcurrent >= 1): at most maxConcurrent calls
\* are in flight, the calls of a chunk are issued together, and no call of
\* the next chunk starts before every call of the chunk has settled.
C9_FanOutFanIn == [](C9_Chunks) /\ [][C9_Step]_vars

\* the one call of the second chunk of three categories is in flight, both
\* calls of the first chunk having settled
C9_Witness ==
    /\ bpc = "awaitAll"
    /\ maxConcurrent = 2
    /\ idx = 2
    /\ started = {1, 2, 3}
    /\ finished = {1, 2}
    /\ pauses = 1

\* C10 (state part): a call has at most one request in flight, and has one
\* exactly while it awaits an attempt.
C10_OneInFlight ==
    \A j \in DOMAIN call :
        /\ call[j].inflight \in {0, 1}
        /\ call[j].inflight = 1 <=> call[j].pc = "awaiting"

\* C10 (step part): a call in progress issues a request only in the step in
\* which the outcome of its previous attempt, a failure, becomes known, and
\* then issues exactly one.
C10_Step ==
    \A j \in DOMAIN call \cap DOMAIN call' :
        (call[j].pc = "awaiting" /\ call'[j].attempts # call[j].attempts
            /\ ~Ended(call'[j])) =>
            /\ call'[j].attempts = call[j].attempts + 1
            /\ call[j].inflight = 1
            /\ ~call'[j].outcome.ok
            /\ call'[j].inflight = 1

\* C10: within one generateBlogPost call the attempts are strictly
\* sequential: attempt N+1 never starts before the outcome of attempt N is
\* known, so a call has at most one request in flight, also when several
\* calls of a batch chunk are interleaved.
C10_SequentialAttempts == [](C10_OneInFlight) /\ [][C10_Step]_vars

\* two calls of one chunk are both at a later attempt, each with its one
\* request in flight
C10_Witness ==
    \E j, k \in DOMAIN call :
        /\ j # k
        /\ call[j].pc = "awaiting" /\ call[j].attempts >= 2 /\ call[j].inflight = 1
        /\ call[k].pc = "awaiting" /\ call[k].attempts >= 2 /\ call[k].inflight = 1
(***************************************************************************)
(* Properties of generateAudioSummary.                                     *)
(***************************************************************************)
\* C11: generateAudioSummary never raises: whatever the primary tier meets
\* (provider error, no candidates, no audio part, a file-system error) and
\* whatever the fallback tier meets (process error, missing file, too small a
\* file), the call ends by returning a file path or null; it returns null
\* when both tiers failed.
C11_NeverRaises ==
    /\ audio.pc # "thrown"
    /\ audio.thrown = NullError
    /\ audio.pc = "returned" =>
          /\ audio.result \in {PrimaryPath, FallbackPath, JsonNull}
          /\ ( /\ audio.primaryError # NullError
               /\ \/ audio.exec # "ok"
                  \/ ~audio.file.exists
                  \/ audio.file.size <= SizeThreshold )
                => audio.result = JsonNull

\* both tiers failed, the fallback on a file too small, and null was returned
C11_Witness ==
    /\ audio.pc = "returned"
    /\ audio.result = JsonNull
    /\ audio.primaryError = Error(NoAudioMessage)
    /\ audio.exec = "ok"
    /\ audio.file = [exists |-> TRUE, size |-> 50]

\* the external process is started in this step
ExecStarts == audio'.execCalls > audio.execCalls

\* the order of the tiers but for the claim that every failure of the primary
\* tier reaches the external process
C12_Order ==
    /\ audio.primaryCalls <= 1
    /\ audio.execCalls <= 1
    /\ audio.execCalls = 1 => audio.primaryError # NullError
    /\ audio.pc = "fallback" => audio.execCalls = 1
    /\ (audio.pc = "returned" /\ audio.primaryError = NullError)
          => audio.result = PrimaryPath /\ audio.execCalls = 0

C12_Step ==
    /\ ExecStarts => audio.pc = "primary" /\ audio'.primaryError # NullError
    /\ audio'.primaryError # audio.primaryError => audio.pc = "primary"

\* C12: the two tiers run in strict order: the external process is started
\* only after the primary tier has failed and at most once per call, and it
\* is started on every failure of the primary tier but one that leaves the
\* audio directory missing and impossible to create, on which the call
\* returns null with no process started; when the primary tier succeeds the
\* result is its file path and the external process is never started.
C12_TiersInOrder ==
    /\ [](/\ C12_Order
          /\ audio.primaryError # NullError =>
                \/ audio.execCalls = 1
                \/ /\ ~audio.dirExists
                   /\ audio.execCalls = 0
                   /\ audio.pc = "returned"
                   /\ audio.result = JsonNull)
    /\ [][C12_Step]_vars

\* the primary tier failed on writing its file, the external process was
\* started once and its file was returned
C12_Witness ==
    /\ audio.pc = "returned"
    /\ audio.primaryError = Error(WriteMessage)
    /\ audio.execCalls = 1
    /\ audio.result = FallbackPath

\* C12 as it was stated: every failure of the primary tier starts the
\* external process.
C12_EveryFailureFallsBack ==
    /\ [](/\ C12_Order
          /\ audio.primaryError # NullError => audio.execCalls = 1)
    /\ [][C12_Step]_vars

\* some candidate of the response, at whatever position, has an audio part
AudioAnywhere(r) ==
    \E k \in DOMAIN r.candidates :
        r.candidates[k].hasContent /\ HasAudioPart(r.candidates[k].parts)

\* C13: the primary tier succeeds whenever the response holds a candidate, at
\* any position of the candidate list, whose content has a part of inline
\* audio data (the file system letting the file be written); the fallback is
\* then not used.
C13_AudioAnywhereSucceeds ==
    ( /\ audio.answered = "response"
      /\ AudioAnywhere(audio.response)
      /\ audio.primaryError \notin {Error(MkdirMessage), Error(WriteMessage)} )
    => /\ audio.pc = "returned"
       /\ audio.result = PrimaryPath
       /\ audio.primaryError = NullError
       /\ audio.execCalls = 0

\* C14: after a failure of the primary tier the call returns the fallback's
\* file path exactly when the external process exited without error and the
\* file exists with a size strictly above 100; a missing file or one of 100
\* bytes or fewer gives null.
C14_FallbackAccepts ==
    (audio.pc = "returned" /\ audio.primaryError # NullError) =>
        /\ audio.result \in {FallbackPath, JsonNull}
        /\ audio.result = FallbackPath
              <=> /\ audio.exec = "ok"
                  /\ audio.file.exists
                  /\ audio.file.size > SizeThreshold
        /\ (audio.file = [exists |-> TRUE, size |-> 50]) => audio.result = JsonNull
        /\ (audio.exec = "ok" /\ audio.file = [exists |-> TRUE, size |-> 150])
              => audio.result = FallbackPath

\* the primary tier found no candidates, the process left a file of 150 bytes
\* and its path was returned
C14_Witness ==
    /\ audio.pc = "returned"
    /\ audio.primaryError = Error(NoCandidatesMessage)
    /\ audio.exec = "ok"
    /\ audio.file = [exists |-> TRUE, size |-> 150]
    /\ audio.result = FallbackPath

(***************************************************************************)
(* Properties of generateTrendingPost.                                     *)
(***************************************************************************)
C15_State ==
    /\ trend.calls <= 1
    /\ trend.pc # "idle" =>
          /\ trend.calls = 1
          /\ trend.request = [model |-> MODEL_NAME, apiKey |-> genAIKey(processEnv)]
    /\ trend.pc \in {"returned", "thrown"} =>
          /\ trend.outcome # NoOutcome
          /\ ~trend.outcome.ok =>
                trend.pc = "thrown" /\ trend.thrown = trend.outcome.error

C15_Step ==
    /\ trend'.calls > trend.calls => trend.pc = "idle"
    /\ (trend.pc = "awaiting" /\ trend' # trend) => trend'.pc \in {"returned", "thrown"}

\* C15: a call of generateTrendingPost makes exactly one provider call, with
\* the one fixed model and the one client; there is no retry and no fallback:
\* a failure of the call, of the extraction or of the parsing makes it raise,
\* and no second provider call is made.
C15_SingleAttempt == []C15_State /\ [][C15_Step]_vars

\* the reply held no JSON object: the call raised after its one request
C15_Witness ==
    /\ trend.pc = "thrown"
    /\ trend.calls = 1
    /\ trend.thrown = Error(NoJsonMessage)

(***************************************************************************)
(* Properties of the credential pool.                                      *)
(***************************************************************************)
\* the slots the environment sets
SetSlots == {k \in 1..Len(KeySlots) : processEnv[k] # ""}

C16_State ==
    /\ moduleState = "loaded" =>
          /\ SetSlots # {}
          /\ Len(clients) = Cardinality(SetSlots)
          /\ \A k \in SetSlots :
                clients[Cardinality({x \in SetSlots : x <= k})].apiKey = KeySlots[k]
    /\ moduleState = "failed" => SetSlots = {} /\ clients = <<>>
    /\ call # NoCalls => moduleState = "loaded"

C16_Step ==
    /\ moduleState = "loaded" => clients' = clients /\ moduleState' = "loaded"
    /\ moduleState = "failed" => moduleState' = "failed"
    /\ (moduleState = "unloaded" /\ moduleState' # "unloaded")
          => (moduleState' = "failed" <=> SetSlots = {})

\* C16: once gemini.ts is initialised the pool holds exactly one client per
\* set slot (primary, secondary, tertiary), in slot order, the unset slots
\* being dropped; the initialisation fails fatally when no slot is set; after
\* it the size and the order of the pool never change, whatever calls of
\* generateBlogPost are made.
C16_PoolFixed == []C16_State /\ [][C16_Step]_vars

\* slots one and three are set: two clients in that order, and a call that
\* went through the pool has ended
C16_Witness ==
    /\ moduleState = "loaded"
    /\ processEnv[1] # "" /\ processEnv[2] = "" /\ processEnv[3] # ""
    /\ clients = <<[apiKey |-> KeySlots[1]], [apiKey |-> KeySlots[3]]>>
    /\ call # NoCalls
    /\ call[1].pc = "thrown"
    /\ call[1].attempts = 2

(***************************************************************************)
(* Properties of the reply parsing.                                        *)
(***************************************************************************)
Braces(text, b) == {j \in 1..Len(text) : text[j] = b}

\* the text has a "{" with a "}" somewhere after it
HasObjectSpan(text) ==
    /\ Braces(text, "{") # {}
    /\ Braces(text, "}") # {}
    /\ Min(Braces(text, "{")) < Max(Braces(text, "}"))

\* exactly one substring of the text is a JSON object
OneObject(text) ==
    Cardinality({ij \in (1..Len(text)) \X (1..Len(text)) :
                    ij[1] < ij[2] /\ JSONparses(SubSeq(text, ij[1], ij[2]))}) = 1

\* what the claim says of the extraction: the substring taken runs from the
\* first "{" to the last "}", and a reply with no such substring fails
C17_Extraction ==
    rt.pc = "parsed" =>
        /\ HasObjectSpan(rt.text) =>
              /\ jsonMatch(rt.text) = SubSeq(rt.text, Min(Braces(rt.text, "{")),
                                                      Max(Braces(rt.text, "}")))
              /\ ~JSONparses(jsonMatch(rt.text))
                    => rt.outcome = Failure(Error(SyntaxErrorMessage))
        /\ ~HasObjectSpan(rt.text) =>
              /\ jsonMatch(rt.text) = <<>>
              /\ rt.outcome = Failure(Error(NoJsonMessage))

\* C17: the round trip of reply parsing: for a record with a non-empty title
\* and a non-empty content, a reply made of the record's JSON object with
\* prose around it that has no "{" before the object and no "}" after it
\* parses back to a record equal to the original; the substring extracted
\* runs from the first "{" to the last "}" of the reply, and a reply with no
\* such substring makes the attempt fail.
C17_RoundTrip ==
    /\ C17_Extraction
    /\ ( /\ rt.pc = "parsed"
         /\ rt.built
         /\ Braces(rt.pre, "{") = {}
         /\ Braces(rt.post, "}") = {} )
       => rt.outcome = Success(rt.record)

\* a record parsed back from a reply with a stray "}" before its object and a
\* stray "{" after it
C17_Witness ==
    /\ rt.pc = "parsed"
    /\ rt.built
    /\ rt.pre = <<"}", "prose">>
    /\ rt.post = <<"prose", "{">>
    /\ rt.outcome = Success(rt.record)
    /\ rt.record.title = Str("b")

\* C17 as it was stated: the round trip holds with arbitrary prose around the
\* object, as long as the reply holds exactly one balanced JSON object.
C17_RoundTripAnyProse ==
    /\ C17_Extraction
    /\ (rt.pc = "parsed" /\ rt.built /\ OneObject(rt.text))
       => rt.outcome = Success(rt.record)

(***************************************************************************)
(* Properties of the pacing and the termination of generateMultiplePosts.  *)
(***************************************************************************)
\* ceil(n / m) for n >= 0, m >= 1
CeilDiv(n, m) == (n + m - 1) \div m

C18_State ==
    maxConcurrent >= 1 =>
        LET n == Len(categoriesArg)
        IN  /\ bpc = "returned" => pauses = IF n = 0 THEN 0 ELSE CeilDiv(n, maxConcurrent) - 1
            /\ bpc = "sleeping" =>
                  /\ started = finished
                  /\ started = UpTo(Min({n, idx + maxConcurrent}))
                  /\ idx + maxConcurrent < n
                  /\ pauses = (idx \div maxConcurrent) + 1
            /\ bpc = "awaitAll" => pauses = idx \div maxConcurrent

C18_Step ==
    maxConcurrent >= 1 =>
        /\ pauses' # pauses => pauses' = pauses + 1 /\ bpc = "awaitAll" /\ bpc' = "sleeping"
        /\ (bpc = "sleeping" /\ bpc' # "sleeping") =>
              /\ bpc' = "awaitAll"
              /\ started' # started
              /\ pauses' = pauses
        /\ (started' # started /\ started # {}) => bpc = "sleeping"
        /\ bpc = "sleeping" => started' = started \/ bpc' # "sleeping"

\* C18: generateMultiplePosts pauses exactly once between two consecutive
\* chunks and nowhere else: n categories and maxConcurrent m >= 1 make
\* ceil(n / m) - 1 pauses when n > 0 and none when n = 0; a pause starts when
\* all calls of the chunk before it have settled and ends before any call of
\* the next chunk starts; no pause follows the last chunk.
C18_PauseBetweenChunks == []C18_State /\ [][C18_Step]_vars

\* three categories by chunks of one: the second pause, between the second
\* chunk and the third
C18_Witness ==
    /\ bpc = "sleeping"
    /\ Len(categoriesArg) = 3
    /\ maxConcurrent = 1
    /\ pauses = 2
    /\ finished = {1, 2}

\* C19: a call of generateMultiplePosts terminates, for every finite list of
\* categories and every integer maxConcurrent (zero included), every provider
\* call settling.
C19_Terminates == (bpc # "idle") ~> (bpc \in {"returned", "thrown"})

\* with maxConcurrent >= 1 a call of generateMultiplePosts terminates
TerminatesWhenPositive ==
    (bpc # "idle" /\ maxConcurrent >= 1) ~> (bpc \in {"returned", "thrown"})

(***************************************************************************)
(* Properties of the cron handler.                                         *)
(***************************************************************************)
\* the five steps of the claim, in its order
StepOrder == <<"generate", "fetchImage", "persist", "channel", "subscribers">>

\* the steps begun so far, of the five
NamedSteps == SelectSeq(cron.steps, LAMBDA s : s # "trackDownload")

PositionOf(s) == CHOOSE k \in 1..Len(StepOrder) : StepOrder[k] = s

Begun(s) == \E k \in 1..Len(cron.steps) : cron.steps[k] = s

C20_State ==
    /\ ~cron.authorized => cron.steps = <<>> /\ ~cron.persisted
    /\ NamedSteps = SubSeq(StepOrder, 1, Len(NamedSteps))
    /\ \A k \in 1..Len(NamedSteps) :
          \A e \in 1..(k - 1) : e <= PositionOf("persist") => StepOrder[e] \notin cron.failed
    /\ cron.persisted <=> (Begun("persist") /\ "persist" \notin cron.failed
                             /\ cron.pc # "persist")
    /\ "generate" \in cron.failed =>
          /\ ~cron.persisted
          /\ ~Begun("channel") /\ ~Begun("subscribers")
          /\ cron.pc = "responded" /\ cron.status = 500
    /\ (cron.pc = "responded" /\ cron.failed \cap {"channel", "subscribers"} # {}) =>
          /\ cron.status = 200
          /\ Begun("channel") /\ Begun("subscribers")
    /\ (cron.pc = "responded" /\ Begun("channel")) =>
          cron.status = 200 /\ Begun("subscribers")

C20_Step ==
    /\ cron'.steps # cron.steps =>
          \E s \in {"trackDownload"} \cup {StepOrder[k] : k \in 1..Len(StepOrder)} :
              cron'.steps = Append(cron.steps, s)
    /\ (call # NoCalls /\ call' # NoCalls /\ call[1].pc # "thrown" /\ call'[1].pc = "thrown")
          => cron'.pc = "generate"
    /\ (cron.pc = "generate" /\ call # NoCalls /\ call[1].pc = "thrown" /\ cron' # cron)
          => /\ cron'.pc = "responded"
             /\ cron'.status = 500
             /\ "generate" \in cron'.failed

\* C20: the steps of one authorized request occur in the order generate, fetch
\* image, persist post, notify channel, notify subscribers, a step running
\* only if every earlier step up to persistence succeeded; when
\* generateBlogPost raises no post is persisted, no notification is sent and
\* the status is 500; a failure of either notification prevents neither the
\* success response nor the other notification.
C20_CronOrder == []C20_State /\ [][C20_Step]_vars

\* both notifications failed and the success response was returned
C20_Witness ==
    /\ cron.pc = "responded"
    /\ cron.status = 200
    /\ cron.persisted
    /\ cron.failed = {"channel", "subscribers"}
    /\ NamedSteps = StepOrder

=============================================================================
